---------------------------- MODULE Spec2Model ----------------------------
(***************************************************************************)
(* The parser-synthesis agent of agent.py: one run of the LangGraph        *)
(* workflow planner -> code_generator -> code_tester -> (code_generator |  *)
(* END), together with the __main__ block that starts it and reports its   *)
(* result.                                                                 *)
(*                                                                         *)
(* Spec describes a run on a working file system with candidates that      *)
(* return control (normally or by raising).  The collaborators (the two    *)
(* Gemini calls) and every generated candidate are free on each call.      *)
(***************************************************************************)
EXTENDS Integers, Sequences, FiniteSets, TLC

VARIABLES
    pc,             \* position of the run: main, a graph node, END, exit0, exit1, crashed
    target,         \* what the sample pdf and the reference csv of the target hold
    prior,          \* what custom_parsers/ held when the run started
    plan,           \* AgentState.plan
    code,           \* AgentState.code
    feedback,       \* AgentState.feedback
    attempts_left,  \* AgentState.attempts_left
    attempt_no,     \* AgentState.attempt_no
    attemptFile,    \* custom_parsers/<target>_parser_attempt_<n>.py, by n
    canonical,      \* custom_parsers/<target>_parser.py
    outcome,        \* what __main__ reports
    log,            \* the steps of the run so far, in order
    runs,           \* the AgentState and position of each of several processes
    disk,           \* the files of custom_parsers/ those processes share, by path
    bench,          \* a function of the program taken alone: its inputs and its result
    xstate          \* exp.py: the State of the graph, and where the run is

\* the variables of several processes that run agent.py at the same time
duo == <<runs, disk>>

\* the variables of one process taken alone
solo == <<pc, target, prior, plan, code, feedback, attempts_left, attempt_no,
          attemptFile, canonical, outcome, log>>

vars == <<pc, target, prior, plan, code, feedback, attempts_left, attempt_no,
          attemptFile, canonical, outcome, log, runs, disk, bench, xstate>>

\* the variables that no run of agent.py touches
aside == <<bench, xstate>>

---------------------------------------------------------------------------
(* Bounds of the model *)

\* attempt numbers the model follows; the run itself stops at InitialAttempts
MaxAttemptNo == 4
\* attempt files left in custom_parsers/ by earlier runs: attempt_1 .. attempt_MaxPrior
MaxPrior == 1
\* rows of a table of the oracle
MaxRows == 2
\* times the same source is promoted
MaxPromotions == 2
\* pages of a sample pdf
MaxPages == 2
\* characters of the message of an exception, frames of its traceback, rows
\* of a column that differs
MaxText == 3
\* a length that a bounded diagnostic would not exceed
DiagnosticLimit == 6

(* Program constants *)

\* initial_state["attempts_left"], and the 3 of "3 - attempts_left"
InitialAttempts == 3
\* initial_state["attempt_no"]
FirstAttemptNo == 1
\* len(cleaned) < 50
MinCodeLen == 50
\* columns=SCHEMA[:4] and the four cells of a row of the fallback parser
FallbackColumns == 4
\* exp.py: state['retries'] >= 3
RetryLimit == 3
\* exp.py: chat_graph.invoke(init_state) runs with langgraph's default
\* recursion_limit of 25 steps
RecursionLimit == 25

Max(a, b) == IF a >= b THEN a ELSE b
Min(a, b) == IF a <= b THEN a ELSE b

---------------------------------------------------------------------------
(* Texts.  A text is a sequence of tokens: "FL" is a code fence with its   *)
(* language hint and newline at the start of a line, "F" a bare fence,     *)
(* "W" one whitespace character, "X" one other character.                  *)

Tokens == {"FL", "F", "W", "X"}

Rep(tok, n) == [i \in 1..n |-> tok]

\* the text of a reply: n characters of body, bare or inside fences with
\* blank space around the body
Reply(fenced, n) ==
    IF fenced
    THEN <<"FL", "W">> \o Rep("X", n) \o <<"W", "F", "W">>
    ELSE Rep("X", n)

RECURSIVE lstrip(_)
lstrip(s) == IF s # <<>> /\ Head(s) = "W" THEN lstrip(Tail(s)) ELSE s

RECURSIVE rstrip(_)
rstrip(s) ==
    IF s # <<>> /\ s[Len(s)] = "W" THEN rstrip(SubSeq(s, 1, Len(s) - 1)) ELSE s

strip(s) == rstrip(lstrip(s))

NotFence(tok) == tok \notin {"FL", "F"}

\* clean_code_block: drop the fences, then strip
clean_code_block(text) == strip(SelectSeq(text, NotFence))

---------------------------------------------------------------------------
(* Candidates.  What a candidate source does when code_tester_node loads   *)
(* it and calls parse on the sample.                                       *)

Behaviours ==
    { "load_error",   \* exec_module raises (SyntaxError, ImportError, ...)
      "no_parse",     \* the module has no attribute parse
      "not_df",       \* parse returns something that is not a DataFrame
      "raises",       \* parse raises an Exception
      "exits",        \* the module or parse raises SystemExit (not an Exception)
      "mismatch",     \* parse returns a DataFrame that differs from the reference
      "pass" }        \* parse returns a DataFrame equal to the reference

\* a source text, by where it came from and what it does when run
NoCode == [src |-> "none", beh |-> "none"]
NoFile == [src |-> "absent", beh |-> "none"]
OldFile == [src |-> "old", beh |-> "mismatch"]

(* The target: whether its two files exist, and what they hold as far as   *)
(* the fallback parser can tell.  The sample has lines that start with a   *)
(* date, so the fallback parser builds rows of four cells.                 *)
Targets ==
    { t \in [ pdfExists : BOOLEAN, csvExists : BOOLEAN,
              \* columns of the reference csv
              schemaLen : (FallbackColumns - 1)..(FallbackColumns + 1),
              \* the reference's rows are the four-cell splits of the dated lines
              heuristicFits : BOOLEAN ] :
        t.heuristicFits => t.schemaLen = FallbackColumns }

\* the parse of _local_code_fallback, run on the target's sample and compared
\* with the reference
FallbackVerdict(t) ==
    IF t.schemaLen < FallbackColumns
    THEN "raises"       \* DataFrame(rows, columns=SCHEMA[:4]) with 4-cell rows
    ELSE IF Min(FallbackColumns, t.schemaLen) = t.schemaLen /\ t.heuristicFits
         THEN "pass" ELSE "mismatch"

local_code_fallback(t) == [src |-> "fallback", beh |-> FallbackVerdict(t)]

PlanNone == "none"
PlanLLM == "llm"
\* _local_planner_fallback
local_planner_fallback == "fallback"

---------------------------------------------------------------------------
(* The collaborator.  A call raises, answers with no text, or answers.     *)

CallOutcomes == {"raise", "empty", "answer"}

\* safe_generate_text: the text of the answer, "" when the call raised
safe_generate_text(out, text) == IF out = "answer" THEN text ELSE <<>>

---------------------------------------------------------------------------
(* The log of the run *)

Event(e, n, x) == [ev |-> e, n |-> n, x |-> x]

EventsOf(e) == SelectSeq(log, LAMBDA r : r.ev = e)

---------------------------------------------------------------------------
(* __main__ *)

\* custom_parsers/ before the run: empty, or with the files of earlier runs
Priors ==
    { p \in [attempts : 0..MaxPrior, canonical : BOOLEAN] :
        p.canonical => p.attempts > 0 }

initial_state ==
    /\ plan = PlanNone
    /\ code = NoCode
    /\ feedback = ""
    /\ attempts_left = InitialAttempts
    /\ attempt_no = FirstAttemptNo

Init ==
    /\ pc = "main"
    /\ target \in Targets
    /\ prior \in Priors
    /\ initial_state
    /\ attemptFile = [n \in 1..MaxAttemptNo |->
                        IF n <= prior.attempts THEN OldFile ELSE NoFile]
    /\ canonical = IF prior.canonical THEN OldFile ELSE NoFile
    /\ outcome = "running"
    /\ log = <<>>
    /\ runs = <<>>
    /\ disk = <<>>
    /\ bench = "off"
    /\ xstate = "off"

\* a check that looks for the sample pdf only
FilesMissing_PdfOnly(t) == ~t.pdfExists

\* not os.path.exists(pdf_path) or not os.path.exists(csv_path)
FilesMissing(t) == ~t.pdfExists \/ ~t.csvExists

\* the check of the two data files, then app.invoke(initial_state)
Main ==
    /\ pc = "main"
    /\ IF FilesMissing(target)
       THEN /\ pc' = "exit1"
            /\ outcome' = "CONFIGURATION_ERROR"
       ELSE /\ pc' = "planner"
            /\ UNCHANGED outcome
    /\ UNCHANGED <<target, prior, plan, code, feedback, attempts_left,
                   attempt_no, attemptFile, canonical, log>>
    /\ UNCHANGED <<duo, aside>>

\* attempts_used = 3 - final_state['attempts_left']
attemptsUsed == InitialAttempts - attempts_left

\* the report after app.invoke returns
Report ==
    /\ pc = "END"
    /\ pc' = "exit0"
    /\ outcome' = IF feedback = "success" THEN "SUCCESS" ELSE "EXHAUSTED"
    /\ UNCHANGED <<target, prior, plan, code, feedback, attempts_left,
                   attempt_no, attemptFile, canonical, log>>
    /\ UNCHANGED <<duo, aside>>

---------------------------------------------------------------------------
(* The nodes of the workflow *)

planner_node ==
    /\ pc = "planner"
    /\ \E out \in CallOutcomes, n \in 0..1 :
          LET resp_text == safe_generate_text(out, Reply(FALSE, n))
          IN /\ plan' = IF resp_text = <<>> THEN local_planner_fallback
                        ELSE PlanLLM
             /\ log' = Append(log, Event("PLANNING", 0,
                          IF out # "answer" \/ n = 0 THEN "failed"
                          ELSE "answered"))
    /\ pc' = "code_generator"
    /\ UNCHANGED <<target, prior, code, feedback, attempts_left, attempt_no,
                   attemptFile, canonical, outcome>>
    /\ UNCHANGED <<duo, aside>>

\* a generator that keeps whatever text it was given
UseFallback_Never(cleaned) == FALSE

\* not cleaned or len(cleaned) < 50
UseFallback(cleaned) == cleaned = <<>> \/ Len(cleaned) < MinCodeLen

\* what the generator gave, for the log
ReplyClass(out, cleaned, beh) ==
    IF out # "answer" \/ cleaned = <<>> THEN "failed"
    ELSE IF Len(cleaned) < MinCodeLen THEN "short"
    ELSE IF beh = "load_error" THEN "unloadable"
    ELSE "loadable"

ReplyLens == {0, MinCodeLen - 1, MinCodeLen}

\* what a call of the generator can give: no answer; or a text, which when it
\* is empty loads as a module without parse
Replies ==
    { r \in [out : CallOutcomes, fenced : BOOLEAN, n : ReplyLens,
              beh : Behaviours] :
        /\ r.out # "answer" => ~r.fenced /\ r.n = 0
        /\ r.n = 0 => r.beh = "no_parse" }

\* a generator that writes its reply over the plan as well
code_generator_node_Replans ==
    /\ pc = "code_generator"
    /\ attempt_no <= MaxAttemptNo
    /\ code' = local_code_fallback(target)
    /\ plan' = IF plan = PlanLLM THEN local_planner_fallback ELSE PlanLLM
    /\ log' = Append(log, Event("GENERATING", attempt_no, "failed"))
    /\ pc' = "code_tester"
    /\ UNCHANGED <<target, prior, feedback, attempts_left, attempt_no,
                   attemptFile, canonical, outcome>>
    /\ UNCHANGED <<duo, aside>>

code_generator_node ==
    /\ pc = "code_generator"
    /\ attempt_no <= MaxAttemptNo
    /\ \E r \in Replies :
          LET resp_text == safe_generate_text(r.out, Reply(r.fenced, r.n))
              cleaned == clean_code_block(resp_text)
          IN /\ code' = IF UseFallback(cleaned) THEN local_code_fallback(target)
                        ELSE [src |-> "llm", beh |-> r.beh]
             /\ log' = Append(log, Event("GENERATING", attempt_no,
                                         ReplyClass(r.out, cleaned, r.beh)))
    /\ pc' = "code_tester"
    /\ UNCHANGED <<target, prior, plan, feedback, attempts_left, attempt_no,
                   attemptFile, canonical, outcome>>
    /\ UNCHANGED <<duo, aside>>

\* the text of state['feedback'] after an attempt that did not pass
Diagnostic(beh) ==
    CASE beh = "load_error" -> "SyntaxError"
      [] beh = "no_parse" -> "AttributeError"
      [] beh = "not_df" -> "TypeError"
      [] beh = "raises" -> "RuntimeError"
      [] beh = "mismatch" -> "DataFrames not equal"

\* a tester that lowers the budget in the except branch and again in finally
DecAttempts_Twice(left) == left - 2

\* state['attempts_left'] = max(0, state['attempts_left'] - 1)
DecAttempts(left) == Max(0, left - 1)

\* a tester that leaves the attempt number as it is
NextAttemptNo_Same(n) == n

\* state['attempt_no'] = state.get("attempt_no", 1) + 1
NextAttemptNo(n) == n + 1

\* a router that looks at the budget only
should_continue_BudgetOnly(fb, left) ==
    IF left <= 0 THEN "end" ELSE "continue"

\* a router that answers the exhausted budget with a key the graph does not map
should_continue_WrongKey(fb, left) ==
    IF fb = "success" THEN "end"
    ELSE IF left <= 0 THEN "stop"
    ELSE "continue"

should_continue(fb, left) ==
    IF fb = "success" THEN "end"
    ELSE IF left <= 0 THEN "end"
    ELSE "continue"

\* a graph whose "continue" edge leads back to the planner
Route_ToPlanner(choice) ==
    CASE choice = "continue" -> "planner"
      [] choice = "end" -> "END"
      [] OTHER -> "crashed"

\* the edges out of code_tester
Route(choice) ==
    CASE choice = "continue" -> "code_generator"
      [] choice = "end" -> "END"
      [] OTHER -> "crashed"     \* a key that is not in the mapping

\* parse returned a DataFrame, so assert_frame_equal is reached
Validates(beh) == beh \in {"mismatch", "pass"}

\* a tester that writes the canonical file before it compares
Promotes_BeforeCompare(beh) == Validates(beh)

\* assert_frame_equal returned, so the canonical file is written
Promotes(beh) == beh = "pass"

\* a tester that loads and runs the candidate before it saves it
TesterEvents_RunsFirst(n, beh) ==
    <<Event("EXECUTING", n, beh), Event("SAVE", n, "attempt")>>

\* the steps of code_tester_node on a candidate, in the order they happen
TesterEvents(n, beh) ==
    <<Event("SAVE", n, "attempt"), Event("EXECUTING", n, beh)>>
    \o (IF Validates(beh) THEN <<Event("VALIDATING", n, beh)>> ELSE <<>>)
    \o (IF Promotes(beh) THEN <<Event("PROMOTE", n, "canonical")>> ELSE <<>>)

code_tester_node ==
    /\ pc = "code_tester"
    /\ attempt_no \in 1..MaxAttemptNo
    /\ LET beh == code.beh
           fb == IF Promotes(beh) THEN "success"
                 ELSE IF beh = "exits" THEN feedback
                 ELSE Diagnostic(beh)
           left == DecAttempts(attempts_left)
       IN /\ attemptFile' = [attemptFile EXCEPT ![attempt_no] = code]
          /\ canonical' = IF Promotes(beh) THEN code ELSE canonical
          /\ feedback' = fb
          /\ attempts_left' = left
          /\ attempt_no' = NextAttemptNo(attempt_no)
          /\ log' = log \o TesterEvents(attempt_no, beh)
          /\ pc' = Route(should_continue(fb, left))
    /\ UNCHANGED <<target, prior, plan, code, outcome>>
    /\ UNCHANGED <<duo, aside>>

---------------------------------------------------------------------------
Next ==
    \/ Main
    \/ planner_node
    \/ code_generator_node
    \/ code_tester_node
    \/ Report

Spec == Init /\ [][Next]_vars

\* the graph runner and __main__ always take the next step of the program
FairSpec == Spec /\ WF_vars(Next)

---------------------------------------------------------------------------
(* The environment.  EnvSpec is Spec with the faults of the file system:   *)
(* a write to custom_parsers/ that fails, at open or in the middle of the  *)
(* write, and a read of the reference csv that raises (the file is         *)
(* unreadable or malformed).                                               *)

WriteFaults == {"open", "write"}

\* a file that was opened for writing and not written to its end
PartialFile == [src |-> "partial", beh |-> "none"]

\* a write that leaves a file that exists as it is
WriteFile_Keep(old, text, fault) == IF old = NoFile THEN text ELSE old

\* with open(path, "w") as f: f.write(text), and what the file holds after it
WriteFile(old, text, fault) ==
    CASE fault = "open" -> old
      [] fault = "write" -> PartialFile
      [] OTHER -> text

\* an exception leaves the node: app.invoke raises it and __main__ ends with
\* the traceback, without a report
Abort(why) ==
    /\ pc' = "crashed"
    /\ log' = Append(log, Event("ABORT", attempt_no, why))

\* the finally of code_tester_node, and the edge taken after it
Finally(fb) ==
    /\ feedback' = fb
    /\ attempts_left' = DecAttempts(attempts_left)
    /\ attempt_no' = NextAttemptNo(attempt_no)
    /\ pc' = Route(should_continue(fb, DecAttempts(attempts_left)))

\* planner_node when pd.read_csv(state['csv_path']) raises
planner_node_unreadable ==
    /\ pc = "planner"
    /\ Abort("reference")
    /\ UNCHANGED <<target, prior, plan, code, feedback, attempts_left,
                   attempt_no, attemptFile, canonical, outcome>>
    /\ UNCHANGED <<duo, aside>>

\* code_generator_node when pd.read_csv(state['csv_path']) raises
code_generator_node_unreadable ==
    /\ pc = "code_generator"
    /\ attempt_no <= MaxAttemptNo
    /\ Abort("reference")
    /\ UNCHANGED <<target, prior, plan, code, feedback, attempts_left,
                   attempt_no, attemptFile, canonical, outcome>>
    /\ UNCHANGED <<duo, aside>>

\* code_tester_node when the write of the attempt file raises: the write is
\* before the try, so neither except nor finally runs
code_tester_node_save_fails ==
    /\ pc = "code_tester"
    /\ attempt_no \in 1..MaxAttemptNo
    /\ \E fault \in WriteFaults :
          /\ attemptFile' = [attemptFile EXCEPT
                               ![attempt_no] = WriteFile(@, code, fault)]
          /\ Abort(fault)
    /\ UNCHANGED <<target, prior, plan, code, feedback, attempts_left,
                   attempt_no, canonical, outcome>>
    /\ UNCHANGED <<duo, aside>>

\* code_tester_node when parse returned a DataFrame and the read of the
\* reference raises: caught by except Exception
code_tester_node_unreadable ==
    /\ pc = "code_tester"
    /\ attempt_no \in 1..MaxAttemptNo
    /\ Validates(code.beh)
    /\ attemptFile' = [attemptFile EXCEPT ![attempt_no] = code]
    /\ log' = log \o <<Event("SAVE", attempt_no, "attempt"),
                       Event("EXECUTING", attempt_no, code.beh),
                       Event("REFERENCE_FAILED", attempt_no, "reference")>>
    /\ Finally("ParserError")
    /\ UNCHANGED <<target, prior, plan, code, canonical, outcome>>
    /\ UNCHANGED <<duo, aside>>

\* code_tester_node when the tables are equal and the write of the canonical
\* file raises: re-raised by the inner except, caught by except Exception,
\* which replaces the feedback "success"
code_tester_node_promote_fails ==
    /\ pc = "code_tester"
    /\ attempt_no \in 1..MaxAttemptNo
    /\ Promotes(code.beh)
    /\ attemptFile' = [attemptFile EXCEPT ![attempt_no] = code]
    /\ \E fault \in WriteFaults :
          /\ canonical' = WriteFile(canonical, code, fault)
          /\ log' = log \o <<Event("SAVE", attempt_no, "attempt"),
                             Event("EXECUTING", attempt_no, code.beh),
                             Event("VALIDATING", attempt_no, code.beh),
                             Event("PROMOTE_FAILED", attempt_no, fault)>>
    /\ Finally("OSError")
    /\ UNCHANGED <<target, prior, plan, code, outcome>>
    /\ UNCHANGED <<duo, aside>>

EnvNext ==
    \/ Next
    \/ planner_node_unreadable
    \/ code_generator_node_unreadable
    \/ code_tester_node_save_fails
    \/ code_tester_node_unreadable
    \/ code_tester_node_promote_fails

EnvSpec == Init /\ [][EnvNext]_vars

EnvFairSpec == EnvSpec /\ WF_vars(EnvNext)

---------------------------------------------------------------------------
(* Signals and candidates that do not return.  HazardSpec is Spec with a   *)
(* cancel signal (SIGINT: agent.py installs no handler, so Python raises   *)
(* KeyboardInterrupt in the main thread, wherever it is) and with          *)
(* candidates whose load or parse never returns.                           *)

\* KeyboardInterrupt while planner_node or code_generator_node waits for
\* the collaborator: safe_generate_text catches Exception only
node_cancelled(node) ==
    /\ pc = node
    /\ attempt_no <= MaxAttemptNo
    /\ log' = Append(log, Event("CANCEL", attempt_no, node))
    /\ pc' = "crashed"
    /\ UNCHANGED <<target, prior, plan, code, feedback, attempts_left,
                   attempt_no, attemptFile, canonical, outcome>>
    /\ UNCHANGED <<duo, aside>>

planner_node_cancelled == node_cancelled("planner")

code_generator_node_cancelled == node_cancelled("code_generator")

\* KeyboardInterrupt during f.write(state['code']): the with block closes
\* the file as far as it was written, and the exception leaves the node
code_tester_node_save_cancelled ==
    /\ pc = "code_tester"
    /\ attempt_no \in 1..MaxAttemptNo
    /\ attemptFile' = [attemptFile EXCEPT
                         ![attempt_no] = WriteFile(@, code, "write")]
    /\ log' = Append(log, Event("CANCEL", attempt_no, "saving"))
    /\ pc' = "crashed"
    /\ UNCHANGED <<target, prior, plan, code, feedback, attempts_left,
                   attempt_no, canonical, outcome>>
    /\ UNCHANGED <<duo, aside>>

\* KeyboardInterrupt while exec_module or parse runs the candidate: it ends
\* the candidate where it is, passes except Exception, and is discarded by
\* the return in finally
code_tester_node_cancelled ==
    /\ pc = "code_tester"
    /\ attempt_no \in 1..MaxAttemptNo
    /\ attemptFile' = [attemptFile EXCEPT ![attempt_no] = code]
    /\ log' = log \o <<Event("SAVE", attempt_no, "attempt"),
                       Event("EXECUTING", attempt_no, "interrupted"),
                       Event("CANCEL", attempt_no, "executing")>>
    /\ Finally(feedback)
    /\ UNCHANGED <<target, prior, plan, code, canonical, outcome>>
    /\ UNCHANGED <<duo, aside>>

\* exec_module or parse does not return: there is no timeout around them,
\* so code_tester_node stays in the call
code_tester_node_hangs ==
    /\ pc = "code_tester"
    /\ attempt_no \in 1..MaxAttemptNo
    /\ attemptFile' = [attemptFile EXCEPT ![attempt_no] = code]
    /\ log' = log \o <<Event("SAVE", attempt_no, "attempt"),
                       Event("EXECUTING", attempt_no, "hangs")>>
    /\ pc' = "executing"
    /\ UNCHANGED <<target, prior, plan, code, feedback, attempts_left,
                   attempt_no, canonical, outcome>>
    /\ UNCHANGED <<duo, aside>>

HazardNext ==
    \/ Next
    \/ planner_node_cancelled
    \/ code_generator_node_cancelled
    \/ code_tester_node_save_cancelled
    \/ code_tester_node_cancelled
    \/ code_tester_node_hangs

HazardSpec == Init /\ [][HazardNext]_vars

---------------------------------------------------------------------------
(* Several processes.  DuoSpec is two processes that run agent.py at the   *)
(* same time in one working directory, each with its own AgentState and    *)
(* its own interpreter, sharing the files of custom_parsers/.  IsoSpec is  *)
(* one such process alone, with candidates that leave a change behind in   *)
(* the interpreter that runs them.  The data                               *)
(* files exist and the plan is made; the steps of a process are the        *)
(* generator, the write of the attempt file, the rest of the tester (load, *)
(* run, compare, promote, finally) and the report.  The steps of the two   *)
(* processes interleave in any order.                                      *)

RunIds == {1, 2}

(* Names are sequences of characters: "a", "b" and "A" are letters, "W" is *)
(* a blank, and the literal pieces of the file names are one token each.   *)
ArgsOfFirst == {<<"a">>}
ArgsOfSecond == {<<"A", "W">>, <<"b">>, <<"a", "_parser">>}

lower(tok) == IF tok = "A" THEN "a" ELSE tok

\* args.target.strip().lower()
target_bank(arg) == [i \in 1..Len(strip(arg)) |-> lower(strip(arg)[i])]

\* attempt files that do not carry the name of the target
parser_path_NoTarget(t, n) == <<"custom_parsers/", "_parser", "_attempt_", n, ".py">>

\* os.path.join(parser_dir, f"{state['target']}_parser_attempt_{attempt_no}.py")
parser_path(t, n) == <<"custom_parsers/">> \o t \o <<"_parser", "_attempt_", n, ".py">>

\* os.path.join(parser_dir, f"{state['target']}_parser.py")
final_path(t) == <<"custom_parsers/">> \o t \o <<"_parser", ".py">>

DuoTargets == {target_bank(a) : a \in ArgsOfFirst \cup ArgsOfSecond}

Paths ==
    {parser_path(t, n) : t \in DuoTargets, n \in 1..InitialAttempts}
    \cup {final_path(t) : t \in DuoTargets}

\* what a candidate does when it is loaded and run in a fresh interpreter
DuoBehaviours == {"mismatch", "pass"}

(* What running a candidate leaves behind in the interpreter that runs it: *)
(* nothing, or a change to something later code uses (an attribute of an   *)
(* imported library, a builtin, the working directory).                    *)
Effects == {"none", "patches"}

\* the candidate that process r generates for its attempt n
Candidate(r, n, beh, eff) ==
    [src |-> "llm", beh |-> beh, by |-> r, n |-> n, effect |-> eff]

\* what the run of a candidate does in an interpreter: after a change left
\* by an earlier candidate it can be anything
Outcomes(file, interp) ==
    IF interp = "patched" THEN DuoBehaviours ELSE {file.beh}

\* the interpreter after exec_module and parse have run the candidate in it
After(file, interp) == IF file.effect = "patches" THEN "patched" ELSE interp

\* the state of a process when app.invoke reaches code_generator first
StartOf(arg) ==
    [target |-> target_bank(arg),
     pc |-> "code_generator",
     code |-> NoCode,
     feedback |-> "",
     attempts_left |-> InitialAttempts,
     attempt_no |-> FirstAttemptNo,
     interp |-> "clean",
     outcome |-> "running",
     saved |-> <<>>,    \* the candidates it has saved
     ran |-> <<>>]      \* what it loaded, and what that did

\* the variables of Spec, at rest
SoloIdle ==
    /\ pc = "idle"
    /\ target = [pdfExists |-> TRUE, csvExists |-> TRUE,
                 schemaLen |-> FallbackColumns, heuristicFits |-> FALSE]
    /\ prior = [attempts |-> 0, canonical |-> FALSE]
    /\ initial_state
    /\ attemptFile = [n \in 1..MaxAttemptNo |-> NoFile]
    /\ canonical = NoFile
    /\ outcome = "running"
    /\ log = <<>>

DuoInit ==
    /\ SoloIdle
    /\ bench = "off"
    /\ xstate = "off"
    /\ \E a1 \in ArgsOfFirst, a2 \in ArgsOfSecond :
          runs = [r \in RunIds |-> StartOf(IF r = 1 THEN a1 ELSE a2)]
    /\ disk = [p \in Paths |-> NoFile]

\* code_generator_node of process r
P_code_generator_node(r) ==
    /\ runs[r].pc = "code_generator"
    /\ \E beh \in DuoBehaviours :
          runs' = [runs EXCEPT
                     ![r].code = Candidate(r, runs[r].attempt_no, beh, "none"),
                     ![r].pc = "code_tester"]
    /\ UNCHANGED <<disk, solo, aside>>

\* code_generator_node of process r when the reply is a candidate that
\* leaves a change behind
P_code_generator_node_patching(r) ==
    /\ runs[r].pc = "code_generator"
    /\ \E beh \in DuoBehaviours :
          runs' = [runs EXCEPT
                     ![r].code = Candidate(r, runs[r].attempt_no, beh, "patches"),
                     ![r].pc = "code_tester"]
    /\ UNCHANGED <<disk, solo, aside>>

\* code_tester_node of process r, up to the end of the write
P_save(r) ==
    /\ runs[r].pc = "code_tester"
    /\ disk' = [disk EXCEPT
                  ![parser_path(runs[r].target, runs[r].attempt_no)] = runs[r].code]
    /\ runs' = [runs EXCEPT ![r].saved = Append(@, runs[r].code),
                            ![r].pc = "load"]
    /\ UNCHANGED <<solo, aside>>

\* code_tester_node of process r, from the load of the attempt file on
P_test(r) ==
    /\ runs[r].pc = "load"
    /\ LET file == disk[parser_path(runs[r].target, runs[r].attempt_no)]
           left == DecAttempts(runs[r].attempts_left)
       IN \E beh \in Outcomes(file, runs[r].interp) :
            LET fb == IF Promotes(beh) THEN "success" ELSE Diagnostic(beh)
            IN /\ disk' = IF Promotes(beh)
                          THEN [disk EXCEPT ![final_path(runs[r].target)] = runs[r].code]
                          ELSE disk
               /\ runs' = [runs EXCEPT
                            ![r].feedback = fb,
                            ![r].attempts_left = left,
                            ![r].attempt_no = NextAttemptNo(@),
                            ![r].interp = After(file, @),
                            ![r].ran = Append(@, [file |-> file, did |-> beh]),
                            ![r].pc = Route(should_continue(fb, left))]
    /\ UNCHANGED <<solo, aside>>

\* the report of process r
P_report(r) ==
    /\ runs[r].pc = "END"
    /\ runs' = [runs EXCEPT
                  ![r].outcome = IF runs[r].feedback = "success"
                                 THEN "SUCCESS" ELSE "EXHAUSTED",
                  ![r].pc = "exit0"]
    /\ UNCHANGED <<disk, solo, aside>>

DuoNext ==
    \E r \in RunIds :
        \/ P_code_generator_node(r)
        \/ P_save(r)
        \/ P_test(r)
        \/ P_report(r)

DuoSpec == DuoInit /\ [][DuoNext]_vars

IsoInit ==
    /\ SoloIdle
    /\ bench = "off"
    /\ xstate = "off"
    /\ \E a \in ArgsOfFirst \cup ArgsOfSecond : runs = [r \in {1} |-> StartOf(a)]
    /\ disk = [p \in Paths |-> NoFile]

IsoNext ==
    \/ P_code_generator_node(1)
    \/ P_code_generator_node_patching(1)
    \/ P_save(1)
    \/ P_test(1)
    \/ P_report(1)

IsoSpec == IsoInit /\ [][IsoNext]_vars

---------------------------------------------------------------------------
(* The oracle.  OracleSpec takes the comparison of code_tester_node alone: *)
(* pd.testing.assert_frame_equal(result_df.reset_index(drop=True),         *)
(* expected_df.reset_index(drop=True), check_dtype=False, check_like=True) *)
(* as pandas (1.2 and later) carries it out, and DataFrame.equals of       *)
(* run_test in exp.py.  A table is its column names in order and its rows  *)
(* in order, a row being its cells in the order of the columns; after      *)
(* reset_index(drop=True) the row labels are the positions.                *)
(* A number is held in hundredths.                                         *)

\* the variables of the runs, at rest
RunsIdle == SoloIdle /\ runs = <<>> /\ disk = <<>>

Abs(a) == IF a >= 0 THEN a ELSE 0 - a

Range(seq) == {seq[i] : i \in 1..Len(seq)}

IndexOf(seq, x) == CHOOSE i \in 1..Len(seq) : seq[i] = x

Perms(n) == {f \in [1..n -> 1..n] : \A i, j \in 1..n : f[i] = f[j] => i = j}

\* cells: a float, an int, and a text with the number it spells
F(v) == [k |-> "float", v |-> v, text |-> ""]
I(v) == [k |-> "int", v |-> v, text |-> ""]
S(text, v) == [k |-> "str", v |-> v, text |-> text]

\* 10.00, 1000000.00 and 1000001.00
GridCells == {F(1000), F(100000000), F(100000100)}

RichCells ==
    GridCells \cup {F(1001), F(123400), F(123450), I(123400),
                    S("1,234.50", 123450), S("1234.5", 123450)}

Table(cols, rows) == [cols |-> cols, rows |-> rows]

\* the table whose column A holds the cells as and whose other columns
\* hold 10.00
GridTable(cols, as) ==
    Table(cols, [i \in 1..Len(as) |->
                   [j \in 1..Len(cols) |->
                      IF cols[j] = "A" THEN as[i] ELSE F(1000)]])

ColumnsOver(cells) == UNION {[1..n -> cells] : n \in 1..MaxRows}

RefTables == {GridTable(<<"A", "B">>, as) : as \in ColumnsOver(GridCells)}

ProdTables ==
    {GridTable(cols, as) :
        cols \in {<<"A", "B">>, <<"B", "A">>, <<"A", "C">>, <<"A">>},
        as \in ColumnsOver(GridCells)}

\* tables of one cell
CellTables == {Table(<<"A">>, <<<<c>>>>) : c \in RichCells}

\* df[c]
Column(t, c) == [i \in 1..Len(t.rows) |-> t.rows[i][IndexOf(t.cols, c)]]

\* df.shape
shape(t) == <<Len(t.rows), Len(t.cols)>>

\* the table with its columns in the order f
PermuteColumns(t, f) ==
    Table([j \in 1..Len(t.cols) |-> t.cols[f[j]]],
          [i \in 1..Len(t.rows) |-> [j \in 1..Len(t.cols) |-> t.rows[i][f[j]]]])

\* the table with its rows in the order f
PermuteRows(t, f) == Table(t.cols, [i \in 1..Len(t.rows) |-> t.rows[f[i]]])

\* abs(a - b) <= atol + rtol * abs(b) with rtol = 1e-5 and atol = 1e-8,
\* the defaults of assert_frame_equal; on whole hundredths that is
\* abs(a - b) * 100000 <= abs(b)
isclose(a, b) == Abs(a - b) <= Abs(b) \div 100000

\* assert_almost_equal on two cells: numbers by isclose whatever their
\* dtype (check_dtype=False), anything else by ==
almost_equal(l, r) ==
    IF l.k = "str" \/ r.k = "str"
    THEN l.k = r.k /\ l.text = r.text
    ELSE isclose(l.v, r.v)

(* assert_frame_equal with check_like=True: the shapes, then the column    *)
(* names without their order, then left.reindex_like(right) and the cells  *)
(* column by column.  The result is "passed" or what the AssertionError    *)
(* says.                                                                   *)
assert_frame_equal(left, right) ==
    IF shape(left) # shape(right) THEN "shape mismatch"
    ELSE IF Range(left.cols) # Range(right.cols) THEN "columns are different"
    ELSE IF \E c \in Range(right.cols), i \in 1..Len(right.rows) :
                ~almost_equal(Column(left, c)[i], Column(right, c)[i])
         THEN "values are different"
    ELSE "passed"

\* DataFrame.equals of run_test in exp.py: the same labels in the same
\* order, the same dtypes and the same values
equals(left, right) == left = right

OracleInit ==
    /\ RunsIdle
    /\ xstate = "off"
    /\ \E p \in ProdTables \cup CellTables :
       \E r \in (IF p \in CellTables THEN CellTables ELSE RefTables) :
          bench = [fn |-> "oracle", produced |-> p, reference |-> r,
                   view |-> "none", against |-> r,
                   verdict |-> "pending", same |-> FALSE]

\* the comparison of the produced table with a view of the reference
Compare(view, ref) ==
    bench' = [bench EXCEPT !.view = view,
                           !.against = ref,
                           !.verdict = assert_frame_equal(bench.produced, ref),
                           !.same = equals(bench.produced, ref)]

OraclePending == bench.fn = "oracle" /\ bench.verdict = "pending"

\* the comparison as code_tester_node makes it
validate ==
    /\ OraclePending
    /\ Compare("reference", bench.reference)
    /\ UNCHANGED <<solo, duo, xstate>>

\* the comparison with a reference whose columns are in another order
validate_columns_permuted ==
    /\ OraclePending
    /\ \E f \in Perms(Len(bench.reference.cols)) :
          /\ PermuteColumns(bench.reference, f) # bench.reference
          /\ Compare("columns", PermuteColumns(bench.reference, f))
    /\ UNCHANGED <<solo, duo, xstate>>

\* the comparison with a reference whose rows are in another order
validate_rows_permuted ==
    /\ OraclePending
    /\ \E f \in Perms(Len(bench.reference.rows)) :
          /\ PermuteRows(bench.reference, f) # bench.reference
          /\ Compare("rows", PermuteRows(bench.reference, f))
    /\ UNCHANGED <<solo, duo, xstate>>

OracleNext ==
    \/ validate
    \/ validate_columns_permuted
    \/ validate_rows_permuted

OracleSpec == OracleInit /\ [][OracleNext]_vars

---------------------------------------------------------------------------
(* Parts of agent.py taken alone.  BenchSpec applies three of them to      *)
(* inputs of every kind: the write of the canonical file, extract_pdf_text *)
(* with the use planner_node makes of its result, and the text that        *)
(* code_tester_node stores as feedback after a failure.                    *)

\* a source that passed the comparison
PassingSources == {[src |-> s, beh |-> "pass"] : s \in {"llm", "fallback"}}

\* what the canonical path holds before a promotion
CanonicalBefore == {NoFile, OldFile, PartialFile} \cup PassingSources

PromoteInit ==
    \E old \in CanonicalBefore, source \in PassingSources :
        bench = [fn |-> "promote", old |-> old, source |-> source,
                 file |-> old, once |-> old, times |-> 0]

\* with open(final_path, "w") as f: f.write(state['code'])
B_promote ==
    /\ bench.fn = "promote"
    /\ bench.times < MaxPromotions
    /\ bench' = [bench EXCEPT
                   !.file = WriteFile(@, bench.source, "none"),
                   !.once = IF bench.times = 0
                            THEN WriteFile(bench.file, bench.source, "none")
                            ELSE @,
                   !.times = @ + 1]
    /\ UNCHANGED <<solo, duo, xstate>>

(* A sample pdf: whether the path exists, whether PdfReader(pdf_path)      *)
(* returns (it raises on a file that is not a pdf, or that was removed     *)
(* after the check), and what page.extract_text() does on each page.       *)
PageOutcomes == {"text", "none", "raises"}

Pdfs ==
    [exists : BOOLEAN, opens : BOOLEAN,
     pages : UNION {[1..n -> PageOutcomes] : n \in 0..MaxPages}]

\* the body of the try of extract_pdf_text: the lines of the pages, or the
\* exception that leaves it
ReadPages(pdf) ==
    IF ~pdf.opens \/ \E i \in 1..Len(pdf.pages) : pdf.pages[i] = "raises"
    THEN [raised |-> TRUE, text |-> <<>>]
    ELSE [raised |-> FALSE,
          text |-> SelectSeq(pdf.pages, LAMBDA pg : pg = "text")]

\* extract_pdf_text without its try
extract_pdf_text_NoTry(pdf) ==
    IF ~pdf.exists
    THEN [raised |-> FALSE, text |-> <<"ERROR: PDF file not found.">>]
    ELSE ReadPages(pdf)

\* extract_pdf_text: what it returns, or that it raised
extract_pdf_text(pdf) ==
    IF ~pdf.exists
    THEN [raised |-> FALSE, text |-> <<"ERROR: PDF file not found.">>]
    ELSE IF ReadPages(pdf).raised
         THEN [raised |-> FALSE, text |-> <<"ERROR reading PDF: ">>]
         ELSE ReadPages(pdf)

ExtractInit ==
    \E pdf \in Pdfs :
        bench = [fn |-> "extract", pdf |-> pdf, at |-> "planner",
                 sample |-> <<>>, plan |-> PlanNone]

\* planner_node up to pdf_text_sample = extract_pdf_text(...)[:4000]
B_extract_pdf_text ==
    /\ bench.fn = "extract"
    /\ bench.at = "planner"
    /\ LET got == extract_pdf_text(bench.pdf)
       IN bench' = [bench EXCEPT
                      !.at = IF got.raised THEN "crashed" ELSE "prompt",
                      !.sample = got.text]
    /\ UNCHANGED <<solo, duo, xstate>>

\* planner_node from the prompt on
B_planner_node ==
    /\ bench.fn = "extract"
    /\ bench.at = "prompt"
    /\ \E out \in CallOutcomes, n \in 0..1 :
          LET resp_text == safe_generate_text(out, Reply(FALSE, n))
          IN bench' = [bench EXCEPT
                         !.at = "code_generator",
                         !.plan = IF resp_text = <<>>
                                  THEN local_planner_fallback ELSE PlanLLM]
    /\ UNCHANGED <<solo, duo, xstate>>

(* A failure of an attempt: an exception with its type, the length of its  *)
(* message and the frames of its traceback, or an AssertionError of        *)
(* assert_frame_equal, whose message prints the two columns that differ,   *)
(* row by row.                                                             *)
Failures ==
    [kind : {"AttributeError", "TypeError", "RuntimeError", "SyntaxError"},
     message : 0..MaxText, trace : 1..MaxText]
    \cup [kind : {"AssertionError"}, message : 1..MaxText, trace : {0}]

\* f"DataFrames not equal: {ae}" and f"{type(e).__name__}: {e}\n{tb}"
FeedbackText(f) ==
    IF f.kind = "AssertionError"
    THEN <<"DataFrames not equal: ">> \o Rep("left", f.message)
                                      \o Rep("right", f.message)
    ELSE <<f.kind, ": ">> \o Rep("X", f.message) \o <<"\n">>
                          \o Rep("frame", f.trace)

FeedbackInit ==
    \E f \in Failures :
        bench = [fn |-> "feedback", failure |-> f, feedback |-> <<>>]

\* the assignments to state['feedback'] of the two except branches
B_feedback ==
    /\ bench.fn = "feedback"
    /\ bench.feedback = <<>>
    /\ bench' = [bench EXCEPT !.feedback = FeedbackText(bench.failure)]
    /\ UNCHANGED <<solo, duo, xstate>>

BenchInit ==
    /\ RunsIdle
    /\ xstate = "off"
    /\ (PromoteInit \/ ExtractInit \/ FeedbackInit)

BenchNext ==
    \/ B_promote
    \/ B_extract_pdf_text
    \/ B_planner_node
    \/ B_feedback

BenchSpec == BenchInit /\ [][BenchNext]_vars

---------------------------------------------------------------------------
(* exp.py.  ExpSpec is a run of the graph read_pdf -> planner ->           *)
(* generate_code -> run_parser -> load_csv -> run_test -> (generate_code | *)
(* END).  A node returns the keys it updates and the graph writes them to  *)
(* the State.  test_conditions is the function of a conditional edge: it   *)
(* is given the State and returns the name of the next node; what it       *)
(* assigns to the dict it was given is kept only if the graph hands it the *)
(* State itself and not a copy, which langgraph does not do.  Both are     *)
(* modelled: keeps says which.  The graph stops with GraphRecursionError   *)
(* after RecursionLimit steps.                                             *)

ExpInit ==
    /\ RunsIdle
    /\ bench = "off"
    /\ \E keeps \in BOOLEAN :
          xstate = [at |-> "read_pdf",
                    parser_output |-> "empty",
                    test_passed |-> FALSE,
                    retries |-> 0,
                    steps |-> 0,        \* steps of the graph so far
                    loops |-> 0,        \* times generate_code was entered
                    keeps |-> keeps]

\* the graph runs node next, when it has steps left
Step(node) == xstate.at = node /\ xstate.steps < RecursionLimit

read_pdf ==
    /\ Step("read_pdf")
    /\ xstate' = [xstate EXCEPT !.at = "planner", !.steps = @ + 1]
    /\ UNCHANGED <<solo, duo, bench>>

\* PdfReader(state['pdf_path']) or page.extract_text() raises: read_pdf has
\* no try
read_pdf_raises ==
    /\ Step("read_pdf")
    /\ xstate' = [xstate EXCEPT !.at = "crashed", !.steps = @ + 1]
    /\ UNCHANGED <<solo, duo, bench>>

planner ==
    /\ Step("planner")
    /\ xstate' = [xstate EXCEPT !.at = "generate_code", !.steps = @ + 1]
    /\ UNCHANGED <<solo, duo, bench>>

generate_code ==
    /\ Step("generate_code")
    /\ xstate' = [xstate EXCEPT !.at = "run_parser", !.steps = @ + 1,
                                !.loops = @ + 1]
    /\ UNCHANGED <<solo, duo, bench>>

\* llm.invoke(prompt) raises: generate_code has no try
generate_code_raises ==
    /\ Step("generate_code")
    /\ xstate' = [xstate EXCEPT !.at = "crashed", !.steps = @ + 1,
                                !.loops = @ + 1]
    /\ UNCHANGED <<solo, duo, bench>>

\* exec and parse_pdf: a DataFrame, or pd.DataFrame() after an Exception
run_parser ==
    /\ Step("run_parser")
    /\ \E out \in {"empty", "table", "reference"} :
          xstate' = [xstate EXCEPT !.parser_output = out,
                                   !.at = "load_csv", !.steps = @ + 1]
    /\ UNCHANGED <<solo, duo, bench>>

load_csv ==
    /\ Step("load_csv")
    /\ xstate' = [xstate EXCEPT !.at = "run_test", !.steps = @ + 1]
    /\ UNCHANGED <<solo, duo, bench>>

\* test_conditions: the route, and what it assigns to the dict it was given
test_conditions(st) ==
    LET retries == st.retries + 1
    IN IF st.test_passed \/ retries >= RetryLimit
       THEN [route |-> "END", retries |-> retries,
             parser_output |-> st.parser_output]
       ELSE [route |-> "generate_code", retries |-> retries,
             parser_output |-> "empty"]

\* run_test, and the conditional edge after it
run_test ==
    /\ Step("run_test")
    /\ LET tested == [xstate EXCEPT
                        !.test_passed = (xstate.parser_output = "reference")]
           routed == test_conditions(tested)
       IN xstate' = [tested EXCEPT
                       !.at = routed.route,
                       !.steps = @ + 1,
                       !.retries = IF xstate.keeps THEN routed.retries ELSE @,
                       !.parser_output = IF xstate.keeps
                                         THEN routed.parser_output ELSE @]
    /\ UNCHANGED <<solo, duo, bench>>

\* the graph has used its steps and has not reached END
out_of_steps ==
    /\ xstate.at \notin {"END", "crashed", "GraphRecursionError"}
    /\ xstate.steps >= RecursionLimit
    /\ xstate' = [xstate EXCEPT !.at = "GraphRecursionError"]
    /\ UNCHANGED <<solo, duo, bench>>

ExpNext ==
    \/ read_pdf
    \/ read_pdf_raises
    \/ planner
    \/ generate_code
    \/ generate_code_raises
    \/ run_parser
    \/ load_csv
    \/ run_test
    \/ out_of_steps

ExpSpec == ExpInit /\ [][ExpNext]_vars

TypeOK ==
    /\ pc \in {"main", "planner", "code_generator", "code_tester", "END",
               "exit0", "exit1", "crashed"}
    /\ attempts_left \in Int
    /\ attempt_no \in Int

---------------------------------------------------------------------------
(* What the log says about the run *)

Generated == EventsOf("GENERATING")
Saved == EventsOf("SAVE")
Executed == EventsOf("EXECUTING")
Promoted == EventsOf("PROMOTE")

\* attempt n produced a table that passed validation
PassedValidation(n) ==
    \E i \in 1..Len(log) :
        log[i].ev = "VALIDATING" /\ log[i].n = n /\ log[i].x = "pass"

SomeAttemptPassed == \E n \in 1..MaxAttemptNo : PassedValidation(n)

\* the graph has reached END
RunEnded == pc \in {"END", "exit0"}

\* the attempt files are numbered 1, 2, ... in the order they were written
SavedInOrder == \A i \in 1..Len(Saved) : Saved[i].n = i

PriorCanonical == IF prior.canonical THEN OldFile ELSE NoFile

---------------------------------------------------------------------------
(* C1: a run in which every candidate fails, by a mismatch or by a fault   *)
(* of its execution, ends EXHAUSTED with attemptsUsed equal to the budget  *)
(* and has written exactly the attempt files 1 .. budget: never more       *)
(* while it runs, and no fewer once it has ended.                          *)
C1_ExhaustedAfterBudget ==
    ~SomeAttemptPassed =>
        /\ Len(Saved) <= InitialAttempts
        /\ SavedInOrder
        /\ RunEnded =>
              /\ attemptsUsed = InitialAttempts
              /\ Len(Saved) = InitialAttempts
              /\ \A n \in 1..InitialAttempts : attemptFile[n].src \in {"llm", "fallback"}
        /\ pc = "exit0" => outcome = "EXHAUSTED"

C1_Witness ==
    /\ pc = "exit0"
    /\ outcome = "EXHAUSTED"
    /\ Len(Saved) = InitialAttempts
    /\ \E i \in 1..Len(Executed) : Executed[i].x = "mismatch"
    /\ \E i \in 1..Len(Executed) : Executed[i].x = "raises"

(* C2: when the candidate of the first generation passes validation, the   *)
(* run ends SUCCESS with attemptsUsed = 1: one attempt file, the canonical *)
(* file holding that candidate, and no second generation.                  *)
C2_FirstPassSucceeds ==
    PassedValidation(FirstAttemptNo) =>
        /\ RunEnded
        /\ feedback = "success"
        /\ attemptsUsed = 1
        /\ Len(Saved) = 1
        /\ Saved[1].n = FirstAttemptNo
        /\ attemptFile[FirstAttemptNo] = code
        /\ canonical = code
        /\ Len(Promoted) = 1
        /\ Len(Generated) = 1
        /\ pc = "exit0" => outcome = "SUCCESS"

C2_Witness ==
    /\ pc = "exit0"
    /\ outcome = "SUCCESS"
    /\ PassedValidation(FirstAttemptNo)
    /\ code.src = "llm"

(* C3: a run on a target whose files exist reaches SUCCESS or EXHAUSTED,   *)
(* having executed at most as many attempts as the budget, whatever each   *)
(* collaborator call and each candidate does.                              *)
C3_RunTerminates ==
    /\ [](Len(Executed) <= InitialAttempts)
    /\ (target.pdfExists /\ target.csvExists)
          => <>(outcome \in {"SUCCESS", "EXHAUSTED"})

C3_Witness ==
    /\ pc = "exit0"
    /\ outcome = "EXHAUSTED"
    /\ plan = local_planner_fallback
    /\ \E i \in 1..Len(Generated) : Generated[i].x = "failed"
    /\ \E i \in 1..Len(Executed) : Executed[i].x = "exits"

(* C4: the canonical file is written at most once in a run, and only by    *)
(* an attempt whose table passed validation; when no attempt passes, it is *)
(* what it was before the run.                                             *)
C4_PromotionOnlyOnPass ==
    /\ Len(Promoted) <= 1
    /\ \A i \in 1..Len(log) :
          log[i].ev = "PROMOTE" =>
              /\ i > 1
              /\ log[i - 1] = Event("VALIDATING", log[i].n, "pass")
    /\ canonical # PriorCanonical => Len(Promoted) = 1
    /\ ~SomeAttemptPassed => canonical = PriorCanonical /\ Len(Promoted) = 0

C4_Witness ==
    /\ pc = "exit0"
    /\ Len(Promoted) = 1
    /\ Promoted[1].n = 2
    /\ canonical = attemptFile[2]
    /\ prior.canonical

\* the attempt executed last passed validation
LastAttemptPassed ==
    Executed # <<>> /\ PassedValidation(Executed[Len(Executed)].n)

C5_StoppedState ==
    /\ SomeAttemptPassed => RunEnded /\ LastAttemptPassed
    /\ RunEnded => LastAttemptPassed \/ attempts_left = 0
    /\ pc = "exit0" => (outcome = "SUCCESS" <=> LastAttemptPassed)
    /\ pc = "exit0" => outcome \in {"SUCCESS", "EXHAUSTED"}

C5_StoppedStep ==
    (feedback = "success" \/ attempts_left = 0) =>
        /\ log' = log
        /\ code' = code
        /\ attemptFile' = attemptFile
        /\ canonical' = canonical

(* C5: the run stops at the first passing attempt, and stops only there   *)
(* or when the budget is used up; once an attempt has passed or the budget *)
(* is zero, nothing more is generated, saved, executed or promoted; and    *)
(* the reported outcome is SUCCESS exactly when the last attempt passed.   *)
C5_StopsAtPassOrExhaustion == [](C5_StoppedState) /\ [][C5_StoppedStep]_vars

C5_Witness ==
    /\ pc = "exit0"
    /\ outcome = "SUCCESS"
    /\ attemptsUsed = 2
    /\ attemptFile[1].beh = "mismatch"

\* the steps of the orchestrator among the events of the log
IsStep(r) == r.ev \in {"PLANNING", "GENERATING", "EXECUTING"}

Steps == SelectSeq(log, IsStep)

(* C6: PLANNING happens once and before any GENERATING; each EXECUTING     *)
(* comes right after the GENERATING of the same attempt number; and the    *)
(* GENERATING of an attempt comes only after the attempt before it has     *)
(* been executed (and validated, when it got that far): never two          *)
(* attempts in flight.                                                     *)
C6_StrictlySequential ==
    /\ Len(EventsOf("PLANNING")) <= 1
    /\ pc \in {"code_generator", "code_tester", "END", "exit0"}
          => Len(EventsOf("PLANNING")) = 1 /\ log[1].ev = "PLANNING"
    /\ Len(Generated) - Len(Executed) \in {0, 1}
    /\ \A i \in 1..Len(Steps) :
          /\ Steps[i].ev = "EXECUTING" =>
                /\ i > 1
                /\ Steps[i - 1].ev = "GENERATING"
                /\ Steps[i - 1].n = Steps[i].n
          /\ Steps[i].ev = "GENERATING" =>
                /\ i > 1
                /\ \/ i = 2 /\ Steps[1].ev = "PLANNING"
                   \/ /\ Steps[i - 1].ev = "EXECUTING"
                      /\ Steps[i - 1].n + 1 = Steps[i].n
    /\ \A i \in 1..Len(log) :
          (log[i].ev = "GENERATING" /\ i > 2) =>
              /\ log[i - 1].ev \in {"EXECUTING", "VALIDATING"}
              /\ log[i - 1].n + 1 = log[i].n

C6_Witness ==
    /\ pc = "code_tester"
    /\ Len(Generated) = InitialAttempts
    /\ Len(Executed) = InitialAttempts - 1

\* what one step may do to the budget
C7_BudgetStep ==
    attempts_left' <= attempts_left /\ attempts_left' >= attempts_left - 1

(* C7: attempts_left is a natural number in every state of a run, and no   *)
(* step lowers it by more than one (nor raises it).                        *)
C7_BudgetNeverNegative == [](attempts_left \in Nat) /\ [][C7_BudgetStep]_vars

C7_Witness ==
    /\ attempts_left = 0
    /\ pc = "END"
    /\ feedback # "success"

(* C8: the k-th attempt a run executes carries the number k, counting from *)
(* 1, so the numbers strictly increase and none is used twice; the same    *)
(* holds of the attempts it generates and saves.                           *)
C8_AttemptNumbers ==
    /\ \A i \in 1..Len(Executed) : Executed[i].n = FirstAttemptNo + (i - 1)
    /\ \A i \in 1..Len(Generated) : Generated[i].n = FirstAttemptNo + (i - 1)
    /\ \A i \in 1..Len(Saved) : Saved[i].n = FirstAttemptNo + (i - 1)
    /\ \A i, j \in 1..Len(Executed) : i < j => Executed[i].n < Executed[j].n

C8_Witness ==
    /\ Len(Executed) = InitialAttempts
    /\ PassedValidation(InitialAttempts)

(* C9 and C10 speak of what became of the reply of each generation: the    *)
(* i-th GENERATING of the run is followed by the i-th SAVE and EXECUTING.  *)

\* the source the run carries, or has saved and executed, for its i-th generation
CandidateOf(i) ==
    IF Len(Saved) >= i THEN attemptFile[Generated[i].n] ELSE code

\* the i-th generation has led to the tester, or through it
Proceeds(i) ==
    IF Len(Saved) >= i
    THEN /\ Saved[i].n = Generated[i].n
         /\ Len(Executed) >= i
         /\ Executed[i].n = Generated[i].n
         /\ Executed[i].x = CandidateOf(i).beh
    ELSE pc = "code_tester" /\ attempt_no = Generated[i].n

GeneratorAlwaysFailed ==
    Generated # <<>> /\ \A i \in 1..Len(Generated) : Generated[i].x = "failed"

\* no collaborator failure stops the run, and each is replaced by the fallback
C9_FailuresReplaced ==
    /\ pc # "crashed"
    /\ \A i \in 1..Len(log) :
          (log[i].ev = "PLANNING" /\ log[i].x = "failed")
              => plan = local_planner_fallback
    /\ \A i \in 1..Len(Generated) :
          Generated[i].x = "failed" =>
              /\ CandidateOf(i) = local_code_fallback(target)
              /\ Proceeds(i)

C10_DegenerateReplyUsesFallback ==
    \A i \in 1..Len(Generated) :
        Generated[i].x \in {"failed", "short", "unloadable"} =>
            /\ CandidateOf(i) = local_code_fallback(target)
            /\ Proceeds(i)

\* custom_parsers/ holds what it held before the run
StoreUntouched ==
    /\ canonical = PriorCanonical
    /\ \A n \in 1..MaxAttemptNo :
          attemptFile[n] = IF n <= prior.attempts THEN OldFile ELSE NoFile

(* C11: when the sample pdf or the reference csv of the target does not    *)
(* exist, the run ends at once with a configuration error: nothing is      *)
(* planned, generated or attempted, and no attempt file and no canonical   *)
(* file is written.                                                        *)
C11_MissingFilesStopTheRun ==
    (~target.pdfExists \/ ~target.csvExists) =>
        /\ pc \in {"main", "exit1"}
        /\ pc = "exit1" => outcome = "CONFIGURATION_ERROR"
        /\ pc = "main" => outcome = "running"
        /\ log = <<>>
        /\ plan = PlanNone
        /\ code = NoCode
        /\ attempts_left = InitialAttempts
        /\ attempt_no = FirstAttemptNo
        /\ StoreUntouched

C11_Witness ==
    /\ pc = "exit1"
    /\ outcome = "CONFIGURATION_ERROR"
    /\ target.pdfExists
    /\ ~target.csvExists
    /\ prior.canonical

\* the i-th event of the log is a write to custom_parsers/ that failed
StoreFailureAt(i) ==
    \/ log[i].ev = "PROMOTE_FAILED"
    \/ log[i].ev = "ABORT" /\ log[i].x \in WriteFaults

(* C12: a failed write to the store aborts the run: after a failed write   *)
(* of an attempt file or of the canonical file the run has stopped, with   *)
(* no further step, and reports neither SUCCESS nor EXHAUSTED.             *)
C12_StoreFailureAborts ==
    \A i \in 1..Len(log) :
        StoreFailureAt(i) =>
            /\ i = Len(log)
            /\ pc = "crashed"
            /\ outcome = "running"

(* C13: a run is aborted only by missing target files or by a failed write *)
(* to the store: a run that stopped without reaching END stopped on a      *)
(* configuration error or right after a store failure, so any other fault  *)
(* (a collaborator, the read of the reference, the candidate, a mismatch)  *)
(* leaves it on its way to SUCCESS or EXHAUSTED.                           *)
C13_OnlyConfigAndStoreAbort ==
    /\ pc = "exit1" => FilesMissing(target)
    /\ pc = "crashed" =>
          /\ log # <<>>
          /\ StoreFailureAt(Len(log))

\* the ways the execution of a candidate fails before there is a table
ExecutionFaults == {"load_error", "no_parse", "not_df", "raises", "exits"}

\* the diagnostic that names the way a candidate failed
NamedDiagnostic(beh) == IF beh = "exits" THEN "SystemExit" ELSE Diagnostic(beh)

(* C14: every execution fault of a candidate (it does not load, has no     *)
(* parse, returns no table, or raises while it runs) is caught and counts  *)
(* as one failed attempt: the feedback after it names the failure, one     *)
(* unit of the budget is gone, and a generation follows when budget        *)
(* remains; a missing parse, a wrong return value and a fault while        *)
(* running give three different diagnostics.                               *)
C14_ExecutionFaultsRecorded ==
    /\ pc # "crashed"
    /\ attempts_left = InitialAttempts - Len(Executed)
    /\ Cardinality({Diagnostic("no_parse"), Diagnostic("not_df"),
                    Diagnostic("raises")}) = 3
    /\ \A i \in 1..Len(Executed) :
          Executed[i].x \in ExecutionFaults =>
              /\ i = Len(Executed) => feedback = NamedDiagnostic(Executed[i].x)
              /\ InitialAttempts - i > 0 =>
                    \/ pc = "code_generator" /\ i = Len(Executed)
                    \/ /\ Len(Generated) > i
                       /\ Generated[i + 1].n = Executed[i].n + 1

(* C15: when an attempt has failed and another follows, the feedback that  *)
(* the next generation reads is the diagnostic of the attempt that just    *)
(* failed: not empty, not the success marker, not the text left by an      *)
(* attempt before it.                                                      *)
C15_FeedbackIsLastDiagnostic ==
    (pc = "code_generator" /\ Executed # <<>>) =>
        /\ feedback # ""
        /\ feedback # "success"
        /\ feedback = NamedDiagnostic(Executed[Len(Executed)].x)

\* the attempt file n holds a whole candidate written by this run
WholeFile(n) == attemptFile[n].src \notin {"absent", "old", "partial", "none"}

\* the attempt files this run has written to their end
FilesWritten == {n \in 1..MaxAttemptNo : \E i \in 1..Len(Saved) : Saved[i].n = n}

C17_AttemptFilesKept ==
    [][ /\ \A n \in 1..MaxAttemptNo :
              attemptFile'[n] # attemptFile[n] =>
                  pc = "code_tester" /\ n = attempt_no
        /\ \A n \in FilesWritten : attemptFile'[n] = attemptFile[n] ]_vars

C17_Witness ==
    /\ outcome = "EXHAUSTED"
    /\ FilesWritten = 1..InitialAttempts
    /\ attemptFile[1].beh = "mismatch"
    /\ attemptFile[2].beh = "raises"
    /\ attemptFile[3].beh = "no_parse"

\* the two processes were started for the same target
SameTarget == runs[1].target = runs[2].target

\* the attempt files process r has written
SlotsOf(r) ==
    {parser_path(runs[r].target, runs[r].saved[i].n) : i \in 1..Len(runs[r].saved)}

\* every file process r can write
PathsOf(r) ==
    {parser_path(runs[r].target, n) : n \in 1..InitialAttempts}
    \cup {final_path(runs[r].target)}

\* the attempt files of process r hold what r wrote to them
KeepsItsFiles(r) ==
    \A i \in 1..Len(runs[r].saved) :
        disk[parser_path(runs[r].target, runs[r].saved[i].n)] = runs[r].saved[i]

(* C18: two processes that run for the same target at the same time never  *)
(* write the same attempt file, so in no interleaving does one replace an  *)
(* attempt file the other has written.                                     *)
C18_NoSharedSlot ==
    SameTarget =>
        /\ SlotsOf(1) \cap SlotsOf(2) = {}
        /\ \A r \in RunIds : KeepsItsFiles(r)

\* what process r reports when it runs alone with the candidates it saved
AloneOutcome(r) ==
    LET c == runs[r].saved
    IN IF c # <<>> /\ c[Len(c)].beh = "pass" THEN "SUCCESS"
       ELSE IF Len(c) = InitialAttempts THEN "EXHAUSTED"
       ELSE "running"

(* C19: two processes that run for different targets at the same time      *)
(* write disjoint sets of paths and share no state: the files of each hold *)
(* what it wrote, each attempt runs the candidate of its own process, and  *)
(* each process reports what it reports when it runs alone.                *)
C19_TargetsIndependent ==
    ~SameTarget =>
        /\ PathsOf(1) \cap PathsOf(2) = {}
        /\ \A r \in RunIds :
              /\ KeepsItsFiles(r)
              /\ Len(runs[r].ran) <= Len(runs[r].saved)
              /\ \A i \in 1..Len(runs[r].ran) :
                    /\ runs[r].ran[i].file = runs[r].saved[i]
                    /\ runs[r].ran[i].did = runs[r].saved[i].beh
              /\ runs[r].attempts_left = InitialAttempts - Len(runs[r].ran)
              /\ runs[r].pc = "exit0" => runs[r].outcome = AloneOutcome(r)
              /\ runs[r].outcome = "SUCCESS" =>
                    disk[final_path(runs[r].target)]
                        = runs[r].saved[Len(runs[r].saved)]

C19_Witness ==
    /\ runs[2].target = <<"a", "_parser">>
    /\ runs[1].outcome = "SUCCESS"
    /\ Len(runs[1].saved) = 2
    /\ runs[2].pc = "load"
    /\ runs[2].attempt_no = 3
    /\ disk[final_path(runs[2].target)] = NoFile

(* C20: every attempt runs in a fresh unit of its own: what the run of a   *)
(* candidate does depends on the source that was loaded and on the input,  *)
(* never on what an earlier attempt loaded or left behind.                 *)
C20_AttemptsIsolated ==
    \A r \in DOMAIN runs :
        \A i \in 1..Len(runs[r].ran) :
            runs[r].ran[i].did = runs[r].ran[i].file.beh

\* the oracle has compared the produced table with a view of the reference
Compared(view) == bench.fn = "oracle" /\ bench.view = view

\* the produced table passes against the reference as it is
PassesAsIs == assert_frame_equal(bench.produced, bench.reference) = "passed"

(* C21: the oracle does not look at the order of the columns and does look *)
(* at the order of the rows: when a produced table passes against a        *)
(* reference, it passes against the reference with its columns in another  *)
(* order, and fails against the reference with its rows in another order.  *)
(* This is said of the comparison of code_tester_node and of run_test.     *)
C21_ColumnsFreeRowsFixed ==
    /\ (Compared("columns") /\ PassesAsIs) => bench.verdict = "passed"
    /\ (Compared("rows") /\ PassesAsIs) => bench.verdict # "passed"
    /\ (Compared("columns") /\ equals(bench.produced, bench.reference))
          => bench.same

(* C22: the oracle checks in a fixed order: a produced table whose set of  *)
(* column names differs from the reference's fails on its columns, before  *)
(* the numbers of rows or the cells are compared; with the same column     *)
(* names, a different number of rows fails on the number of rows before    *)
(* any cell is compared.                                                   *)
C22_SchemaThenRowsThenCells ==
    Compared("reference") =>
        /\ Range(bench.produced.cols) # Range(bench.reference.cols) =>
              \/ bench.verdict = "columns are different"
              \/ /\ bench.verdict = "shape mismatch"
                 /\ Len(bench.produced.cols) # Len(bench.reference.cols)
        /\ ( /\ Range(bench.produced.cols) = Range(bench.reference.cols)
             /\ Len(bench.produced.rows) # Len(bench.reference.rows) )
              => bench.verdict = "shape mismatch"

(* C23: numbers are compared by their value whatever their form: a         *)
(* produced cell that is a text spelling a number, or an int, passes       *)
(* against a float of the same value, and two cells of different value     *)
(* fail on their values.                                                   *)
C23_NumbersByValue ==
    (Compared("reference") /\ bench.produced \in CellTables) =>
        LET got == bench.produced.rows[1][1]
            want == bench.reference.rows[1][1]
        IN want.k = "float" =>
              /\ got.v = want.v => bench.verdict = "passed"
              /\ got.v # want.v => bench.verdict = "values are different"

(* C24: promotion is idempotent: after the same passing source has been    *)
(* promoted to the canonical path twice the file is that source, as it is  *)
(* after one promotion, whatever the path held before.                     *)
C24_PromotionIdempotent ==
    (bench.fn = "promote" /\ bench.times >= 1) =>
        /\ bench.file = bench.source
        /\ bench.file = bench.once

C24_Witness ==
    /\ bench.fn = "promote"
    /\ bench.times = 2
    /\ bench.old = OldFile
    /\ bench.file = bench.source

\* reading the sample fails: the file is missing, is not a pdf, or a page
\* cannot be read
ReadingFails(pdf) ==
    \/ ~pdf.exists
    \/ ~pdf.opens
    \/ \E i \in 1..Len(pdf.pages) : pdf.pages[i] = "raises"

IsErrorString(text) ==
    text \in {<<"ERROR: PDF file not found.">>, <<"ERROR reading PDF: ">>}

(* C27: extract_pdf_text never raises: for a missing file and for a file   *)
(* whose reading fails at any point it returns a text that says so, and    *)
(* planner_node goes on with that text and makes a plan.                   *)
C27_ExtractionNeverRaises ==
    (bench.fn = "extract") =>
        /\ bench.at # "crashed"
        /\ (bench.at # "planner" /\ ReadingFails(bench.pdf))
              => IsErrorString(bench.sample)
        /\ bench.at = "code_generator" => bench.plan # PlanNone

C27_Witness ==
    /\ bench.fn = "extract"
    /\ bench.at = "code_generator"
    /\ bench.pdf.exists
    /\ bench.pdf.opens
    /\ bench.pdf.pages = <<"text", "raises">>
    /\ bench.sample = <<"ERROR reading PDF: ">>
    /\ bench.plan = local_planner_fallback

(* C28: the diagnostic of a failed attempt has a bounded length: a long    *)
(* traceback or difference is cut to a fixed length, and the text still    *)
(* names the kind of the failure.                                          *)
C28_DiagnosticBounded ==
    (bench.fn = "feedback" /\ bench.feedback # <<>>) =>
        /\ Len(bench.feedback) <= DiagnosticLimit
        /\ Head(bench.feedback) \in {bench.failure.kind, "DataFrames not equal: "}

(* C29: no step of a run changes the target, and once planner_node has     *)
(* made the plan no later step (generation, execution, validation, of any  *)
(* attempt) changes it.                                                    *)
C29_TargetAndPlanFixed ==
    [][ /\ target' = target
        /\ plan # PlanNone => plan' = plan
        /\ pc # "planner" => plan' = plan ]_vars

C29_Witness ==
    /\ outcome = "EXHAUSTED"
    /\ plan = PlanLLM
    /\ Len(Executed) = InitialAttempts
    /\ Executed[1].x = "mismatch"
    /\ Executed[2].x = "raises"

(* C25: a cancel signal that arrives while a candidate is executing takes  *)
(* effect only after that candidate has finished: the run then reports     *)
(* CANCELLED and starts no further attempt, and no attempt file is left    *)
(* partly written.                                                         *)
C25_CancelAfterCandidate ==
    \A i \in 1..Len(log) :
        (log[i].ev = "CANCEL" /\ log[i].x = "executing") =>
            /\ log[i - 1].ev = "EXECUTING" /\ log[i - 1].x \in Behaviours
            /\ \A j \in (i + 1)..Len(log) : log[j].ev # "GENERATING"
            /\ pc \notin {"code_generator", "code_tester"}
            /\ pc = "exit0" => outcome = "CANCELLED"
            /\ \A n \in 1..MaxAttemptNo : attemptFile[n] # PartialFile

(* C26: a candidate that does not return within the timeout is cut off and *)
(* counts as one failed attempt: the budget is lowered once, a diagnostic  *)
(* is recorded, and the run retries or ends; the run never stays in the    *)
(* execution of a candidate.                                               *)
C26_HangingCandidateCutOff ==
    \A i \in 1..Len(Executed) :
        Executed[i].x = "hangs" =>
            /\ pc # "executing"
            /\ attempts_left <= InitialAttempts - i
            /\ i = Len(Executed) => feedback = "TimeoutError"

(* C30: in exp.py the retry counter advances on every pass through         *)
(* test_conditions, so generate_code is entered at most three times in a   *)
(* run and the run reaches END, also when the test never passes.           *)
C30_ExpLoopBounded ==
    /\ xstate.loops <= RetryLimit
    /\ xstate.at \notin {"GraphRecursionError", "crashed"}
    /\ xstate.at = "generate_code" => xstate.retries = xstate.loops

(* C31: every execution of the test step moves both counters by one,       *)
(* however the candidate ended (it passed, it did not match, it raised an  *)
(* exception that was caught, or it left in any other way): between the    *)
(* steps of a run attempt_no + attempts_left is the budget plus one, and   *)
(* attemptsUsed is the number of attempts executed, also when the run      *)
(* succeeds.                                                               *)
C31_CountersMoveTogether ==
    /\ attempt_no + attempts_left = InitialAttempts + 1
    /\ attemptsUsed = Len(Executed)
    /\ attempt_no = FirstAttemptNo + Len(Executed)

C31_Witness ==
    /\ outcome = "SUCCESS"
    /\ Len(Executed) = 3
    /\ Executed[1].x = "exits"
    /\ Executed[2].x = "raises"
    /\ Executed[3].x = "pass"
    /\ attempts_left = 0
    /\ attempt_no = 4

\* the canonical file is not what it was when the run started
CanonicalWritten == canonical # PriorCanonical

(* C32: when a run ends with the feedback "success", the canonical file    *)
(* was written in this run and holds what the attempt file with the        *)
(* highest number holds, the candidate that passed; and when the canonical *)
(* file was written in this run, the run ends with the feedback "success". *)
C32_CanonicalIffSuccess ==
    pc \in {"END", "exit0"} =>
        /\ feedback = "success" =>
              /\ CanonicalWritten
              /\ Saved # <<>>
              /\ canonical = attemptFile[Saved[Len(Saved)].n]
              /\ canonical.beh = "pass"
        /\ CanonicalWritten => feedback = "success"

=============================================================================
